---------------------------- MODULE Spec2Model ----------------------------
(***************************************************************************)
(* A model of Get_JIRA_comment_data.py: the paginated fetch of issues      *)
(* (client library path and REST path), the normalisation of raw issues    *)
(* (safe_get, convert_time, process_issues), the row expansion             *)
(* (format_dataframe) and the export loop and summary of main.             *)
(*                                                                         *)
(* JSON values are tagged records, so that values of different Python      *)
(* types can be compared:                                                  *)
(*   None -> [t |-> "null"]        str  -> [t |-> "str",  s |-> "..."]     *)
(*   int  -> [t |-> "num", n |-> 1] list -> [t |-> "list", l |-> <<..>>]   *)
(*   dict -> [t |-> "dict", d |-> [key |-> value, ...]]                    *)
(***************************************************************************)
EXTENDS Integers, Sequences, FiniteSets, TLC

VARIABLES
    pc,              \* position of main / of the function under study
    fetch_method,    \* "a" (client library) or "b" (REST API)
    output_formats,  \* list of requested formats, no repeats
    block_size,      \* page size asked of the source (block_size / max_results)
    srcRecords,      \* the records the issue source holds, in source order
    srcMode,         \* "exact": full consecutive pages, accurate total
    start_at,        \* offset of the next page request (0 outside the fetch)
    all_issues,      \* records accumulated by the fetch loop (empty outside)
    response,        \* the answer of the source to the request in flight
    issues,          \* main's `issues`: what the fetch returned
    fetched,         \* TRUE once the fetch function has returned to main
    idx,             \* number of raw issues process_issues has consumed
    processed_data,  \* list of canonical issues
    reported,        \* number of per-issue failures printed by process_issues
    fmt_idx,         \* number of formats the export loop has consumed
    attempts,        \* per format: how many times its generator was called
    artifacts,       \* per format: the content written, or NoFile
    export_errors,   \* number of export failures printed
    summary,         \* the numbers printed by the final summary, or NoSummary
    exit_code,       \* process exit status once the run has stopped
    sg_data,         \* safe_get study: argument data
    sg_keys,         \* safe_get study: argument keys (dotted path)
    sg_result        \* safe_get study: the returned value, or NotCalled

vars == <<pc, fetch_method, output_formats, block_size, srcRecords, srcMode,
          start_at, all_issues, response, issues, fetched, idx, processed_data,
          reported, fmt_idx, attempts, artifacts, export_errors, summary,
          exit_code, sg_data, sg_keys, sg_result>>

-----------------------------------------------------------------------------
(* Bounds of the model.                                                    *)

MaxIssues == 2        \* records held by the source in the pipeline model
MaxPageSize == 2      \* page sizes 1..MaxPageSize are tried
MaxTotalSkew == 1     \* how far a source-reported total may be off
MaxProcIssues == 2    \* raw issues given to process_issues on its own

-----------------------------------------------------------------------------
(* JSON values.                                                            *)

None == [t |-> "null"]
Str(s) == [t |-> "str", s |-> s]
Num(n) == [t |-> "num", n |-> n]
List(l) == [t |-> "list", l |-> l]
Dict(d) == [t |-> "dict", d |-> d]

EmptyStr == Str("")
EmptyList == List(<<>>)

\* The default of safe_get and the literal compared in process_issues (a
\* six-character Chinese text meaning "the field is empty"; written in ASCII
\* here).
Sentinel == Str("<field is empty>")

Min(a, b) == IF a < b THEN a ELSE b
Max(a, b) == IF a > b THEN a ELSE b

\* Python's s[lo:hi] on a string, for 0 <= lo, hi
PySlice(s, lo, hi) ==
    LET h == Min(hi, Len(s))
    IN  IF lo >= h THEN "" ELSE SubSeq(s, lo + 1, h)

\* the character of s at 1-based position i, "" past the end
CharAt(s, i) == IF i >= 1 /\ i <= Len(s) THEN SubSeq(s, i, i) ELSE ""

-----------------------------------------------------------------------------
(* safe_get                                                                *)

\* keys.split('.')
RECURSIVE SplitFrom(_, _, _)
SplitFrom(s, i, cur) ==
    IF i > Len(s) THEN <<cur>>
    ELSE IF CharAt(s, i) = "." THEN <<cur>> \o SplitFrom(s, i + 1, "")
    ELSE SplitFrom(s, i + 1, cur \o CharAt(s, i))

SplitDots(s) == SplitFrom(s, 1, "")

\* dict.get(key, default)
DictGet(d, key, default) == IF key \in DOMAIN d THEN d[key] ELSE default

\* The for loop of safe_get from its i-th key on.  ret = TRUE: the loop left
\* the function by `return default`; ret = FALSE: the loop ended or broke and
\* v is the value of `data` at that point.
RECURSIVE SafeGetLoop(_, _, _, _)
SafeGetLoop(data, ks, i, default) ==
    IF i > Len(ks) THEN [ret |-> FALSE, v |-> data]
    ELSE IF data.t = "dict"
         THEN LET nd == DictGet(data.d, ks[i], default)
              IN  IF nd = default THEN [ret |-> FALSE, v |-> nd]
                  ELSE SafeGetLoop(nd, ks, i + 1, default)
         ELSE [ret |-> TRUE, v |-> default]

\* a variant of SafeGetFinalKeep that forgets the empty string
SafeGetFinalKeepNoEmptyCheck(v) == v /= None

\* `data not in [None, ""]`
SafeGetFinalKeep(v) == v /= None /\ v /= EmptyStr

safe_get(data, keys, default) ==
    LET r == SafeGetLoop(data, SplitDots(keys), 1, default)
    IN  IF r.ret THEN r.v
        ELSE IF SafeGetFinalKeep(r.v) THEN r.v ELSE default

-----------------------------------------------------------------------------
(* convert_time: datetime.strptime(s, "%Y-%m-%dT%H:%M:%S.%f%z") followed by *)
(* strftime("%Y-%m-%d %H:%M:%S"); any exception returns the argument.       *)
(* strptime is modelled for years 1000..9999 and UTC offsets written Z,     *)
(* +HHMM or +HH:MM.                                                         *)

DigitChars == "0123456789"
IsDigit(c) == c \in {"0", "1", "2", "3", "4", "5", "6", "7", "8", "9"}
DigitVal(c) ==
    CASE c = "0" -> 0 [] c = "1" -> 1 [] c = "2" -> 2 [] c = "3" -> 3
      [] c = "4" -> 4 [] c = "5" -> 5 [] c = "6" -> 6 [] c = "7" -> 7
      [] c = "8" -> 8 [] c = "9" -> 9

\* number of consecutive digits of s from position i on
RECURSIVE DigitRun(_, _)
DigitRun(s, i) == IF IsDigit(CharAt(s, i)) THEN 1 + DigitRun(s, i + 1) ELSE 0

\* the number written by the n digits of s from position i on
RECURSIVE NumAt(_, _, _)
NumAt(s, i, n) ==
    IF n = 0 THEN 0 ELSE NumAt(s, i, n - 1) * 10 + DigitVal(CharAt(s, i + n - 1))

IsLeap(y) == (y % 4 = 0 /\ y % 100 /= 0) \/ y % 400 = 0
DaysInMonth(y, m) ==
    IF m = 2 THEN (IF IsLeap(y) THEN 29 ELSE 28)
    ELSE IF m \in {4, 6, 9, 11} THEN 30 ELSE 31

\* The maximal digit runs and the single other characters of s from position
\* i on, in order: "10:05" gives <<"10", ":", "05">>.
RECURSIVE Tokens(_, _)
Tokens(s, i) ==
    IF i > Len(s) THEN <<>>
    ELSE CHOOSE toks \in {<<SubSeq(s, i, i + r - 1)>> \o Tokens(s, i + r) :
                            r \in {Max(1, DigitRun(s, i))}} : TRUE

IsNumber(tok) == IsDigit(CharAt(tok, 1))
NumOf(tok) == NumAt(tok, 1, Len(tok))

\* a directive of one or two digits (%m %d %H %M %S) with its range
Field2(tok, lo, hi) ==
    IsNumber(tok) /\ Len(tok) \in {1, 2} /\ NumOf(tok) >= lo /\ NumOf(tok) <= hi

\* %z: the tokens after the fraction, up to the end of the string
ParseOffset(z) ==
    \/ z = <<"Z">>
    \/ /\ Len(z) = 2
       /\ z[1] \in {"+", "-"}
       /\ IsNumber(z[2]) /\ Len(z[2]) = 4
       /\ NumAt(z[2], 1, 2) <= 23 /\ NumAt(z[2], 3, 2) <= 59
    \/ /\ Len(z) = 4
       /\ z[1] \in {"+", "-"}
       /\ IsNumber(z[2]) /\ Len(z[2]) = 2 /\ NumOf(z[2]) <= 23
       /\ z[3] = ":"
       /\ IsNumber(z[4]) /\ Len(z[4]) = 2 /\ NumOf(z[4]) <= 59

\* the format matched against the tokens tk of the string
StrptimeTokens(tk) ==
    IF /\ Len(tk) >= 14
       /\ IsNumber(tk[1]) /\ Len(tk[1]) = 4 /\ NumOf(tk[1]) >= 1000
       /\ tk[2] = "-"
       /\ Field2(tk[3], 1, 12)
       /\ tk[4] = "-"
       /\ Field2(tk[5], 1, 31)
       /\ NumOf(tk[5]) <= DaysInMonth(NumOf(tk[1]), NumOf(tk[3]))
       /\ tk[6] \in {"T", "t"}
       /\ Field2(tk[7], 0, 23)
       /\ tk[8] = ":"
       /\ Field2(tk[9], 0, 59)
       /\ tk[10] = ":"
       /\ Field2(tk[11], 0, 59)
       /\ tk[12] = "."
       /\ IsNumber(tk[13]) /\ Len(tk[13]) <= 6
       /\ ParseOffset(SubSeq(tk, 14, Len(tk)))
    THEN [ok |-> TRUE,
          year |-> NumOf(tk[1]), month |-> NumOf(tk[3]), day |-> NumOf(tk[5]),
          hour |-> NumOf(tk[7]), minute |-> NumOf(tk[9]), second |-> NumOf(tk[11])]
    ELSE [ok |-> FALSE]

\* datetime.strptime: ok = FALSE stands for the ValueError
Strptime(s) ==
    CHOOSE dt \in {StrptimeTokens(tk) : tk \in {Tokens(s, 1)}} : TRUE

Pad2(n) == CharAt(DigitChars, (n \div 10) + 1) \o CharAt(DigitChars, (n % 10) + 1)
Pad4(n) == Pad2(n \div 100) \o Pad2(n % 100)

\* dt.strftime("%Y-%m-%d %H:%M:%S")
Strftime(dt) ==
    Pad4(dt.year) \o "-" \o Pad2(dt.month) \o "-" \o Pad2(dt.day) \o " "
    \o Pad2(dt.hour) \o ":" \o Pad2(dt.minute) \o ":" \o Pad2(dt.second)

\* strptime raises TypeError on a non-string, ValueError on a mismatch; the
\* bare except returns the argument in both cases.
ConvertParsed(jira_time, dt) ==
    IF dt.ok THEN Str(Strftime(dt)) ELSE jira_time

convert_time(jira_time) ==
    IF jira_time.t /= "str" THEN jira_time
    ELSE CHOOSE out \in {ConvertParsed(jira_time, dt) :
                            dt \in {Strptime(jira_time.s)}} : TRUE

-----------------------------------------------------------------------------
(* Raw issues: what the issue source may hold.                             *)

Absent == [t |-> "absent"]     \* stands for "the key is not in the mapping"

\* the mapping d with key k set to v, or d itself when v is Absent
WithKey(d, k, v) == IF v = Absent THEN d ELSE (k :> v) @@ d

ParseableTime == Str("2024-07-15T10:00:00.000+0800")

CommentFull ==
    Dict([body |-> Str("looks fine"),
          author |-> Dict([displayName |-> Str("Ann")]),
          created |-> Str("2024-07-16T09:30:00.000+0800")])

\* empty body, null author, no created
CommentPartial == Dict([body |-> EmptyStr, author |-> None])

KeyOf(i) == "JIRA-" \o CharAt(DigitChars, i + 1)

\* a raw issue with the given `created` value and `comment` value
RawIssue(i, created, comment) ==
    Dict([key |-> Str(KeyOf(i)),
          fields |-> Dict(WithKey(WithKey(
              [issuetype |-> Dict([name |-> Str("Bug")]),
               summary |-> Str("Crash on save"),
               status |-> Dict([name |-> Str("Open")]),
               resolution |-> None,
               environment |-> EmptyStr,
               description |-> Str("Steps")],
              "created", created), "comment", comment))])

Comments(l) == Dict([comments |-> List(l)])

RichKinds == {"two_comments", "short_created", "no_created", "null_created",
              "empty_created", "sentinel_created", "number_created",
              "not_a_mapping"}

SampleIssue(kind, i) ==
    CASE kind = "two_comments" ->
            RawIssue(i, ParseableTime, Comments(<<CommentFull, CommentPartial>>))
      [] kind = "short_created" ->
            RawIssue(i, Str("2024"), Comments(<<>>))
      [] kind = "no_created" ->
            RawIssue(i, Absent, Absent)
      [] kind = "null_created" ->
            RawIssue(i, None, Dict([comments |-> Str("n/a")]))
      [] kind = "empty_created" ->
            RawIssue(i, EmptyStr, Comments(<<CommentFull>>))
      [] kind = "sentinel_created" ->
            RawIssue(i, Sentinel, Comments(<<>>))
      [] kind = "number_created" ->
            RawIssue(i, Num(20240715), Comments(<<CommentFull>>))
      [] kind = "not_a_mapping" ->
            None

\* the sequences of at most n raw issues of the given kinds; the issue at
\* position i has key KeyOf(i)
IssueLists(kinds, n) ==
    UNION {{[i \in 1..k |-> SampleIssue(ks[i], i)] : ks \in [1..k -> kinds]} : k \in 0..n}

-----------------------------------------------------------------------------
(* process_issues                                                          *)

\* base['created'][:4] and [5:7]: a str or a list can be sliced, anything else
\* raises TypeError
Sliceable(v) == v.t \in {"str", "list"}

SliceValue(v, lo, hi) ==
    IF v.t = "str" THEN Str(PySlice(v.s, lo, hi))
    ELSE LET h == Min(hi, Len(v.l))
         IN  List(IF lo >= h THEN <<>> ELSE SubSeq(v.l, lo + 1, h))

\* a variant of MonthSlice with both bounds one too low
MonthSliceOffByOne(v) == SliceValue(v, 4, 6)

\* base['created'][5:7]
MonthSlice(v) == SliceValue(v, 5, 7)

\* one element of fields.comment.comments
NormalizeComment(comment) ==
    [body |-> safe_get(comment, "body", Sentinel),
     author |-> safe_get(comment, "author.displayName", Sentinel),
     created |-> convert_time(safe_get(comment, "created", Sentinel))]

\* The body of the try block for one raw issue.  ok = FALSE: an exception was
\* raised (issue.get on a non-mapping, or slicing a non-sliceable created).
NormalizeIssue(issue) ==
    IF issue.t /= "dict" THEN [ok |-> FALSE]
    ELSE
    LET fields == DictGet(issue.d, "fields", Dict(<<>>))
        created == convert_time(safe_get(fields, "created", Sentinel))
        comments == safe_get(fields, "comment.comments", EmptyList)
        comment_list ==
            IF comments.t = "list" /\ comments.l /= <<>>
            THEN [j \in 1..Len(comments.l) |-> NormalizeComment(comments.l[j])]
            ELSE <<>>
    IN  IF created /= Sentinel /\ ~Sliceable(created) THEN [ok |-> FALSE]
        ELSE [ok |-> TRUE,
              rec |-> [key |-> safe_get(issue, "key", Sentinel),
                       type |-> safe_get(fields, "issuetype.name", Sentinel),
                       Summary |-> safe_get(fields, "summary", Sentinel),
                       created |-> created,
                       status |-> safe_get(fields, "status.name", Sentinel),
                       resolution |-> safe_get(fields, "resolution.name", Sentinel),
                       environment |-> safe_get(fields, "environment", Sentinel),
                       description |-> safe_get(fields, "description", Sentinel),
                       comments |-> comments,
                       created_year |-> IF created /= Sentinel
                                        THEN SliceValue(created, 0, 4) ELSE Sentinel,
                       created_month |-> IF created /= Sentinel
                                         THEN MonthSlice(created) ELSE Sentinel,
                       comment_data |-> comment_list]]

-----------------------------------------------------------------------------
(* format_dataframe and the generators                                     *)

\* 'comment' of the row of an issue without comments (a Chinese text meaning
\* "this issue has no comment"; written in ASCII here)
NoCommentMarker == Str("<issue has no comment>")

BaseRow(item) ==
    [key |-> item.key, type |-> item.type, Summary |-> item.Summary,
     created |-> item.created, created_year |-> item.created_year,
     created_month |-> item.created_month, status |-> item.status,
     resolution |-> item.resolution, environment |-> item.environment,
     description |-> item.description]

\* row.update({...}): the three comment columns added to a copy of base_row
RowWith(base_row, comment, author, created) ==
    [comment |-> comment, comment_author |-> author,
     comment_created_time |-> created] @@ base_row

\* a variant of ItemRows that writes no row for an item without comments
ItemRowsDropEmpty(item) ==
    IF item.comment_data = <<>> THEN <<>>
    ELSE [j \in 1..Len(item.comment_data) |->
             RowWith(BaseRow(item), item.comment_data[j].body,
                     item.comment_data[j].author, item.comment_data[j].created)]

\* the rows appended for one item
ItemRows(item) ==
    IF item.comment_data = <<>>
    THEN <<RowWith(BaseRow(item), NoCommentMarker, EmptyStr, EmptyStr)>>
    ELSE [j \in 1..Len(item.comment_data) |->
             RowWith(BaseRow(item), item.comment_data[j].body,
                     item.comment_data[j].author, item.comment_data[j].created)]

RECURSIVE format_dataframe(_)
format_dataframe(data) ==
    IF data = <<>> THEN <<>>
    ELSE ItemRows(Head(data)) \o format_dataframe(Tail(data))

\* generate_txt: per item the scalar lines, then either the "no remarks" line
\* or one line per comment
NoRemarkLine == Str("<this ticket has no remarks>")

generate_txt(data) ==
    [i \in 1..Len(data) |->
        [head |-> BaseRow(data[i]),
         remarks |-> IF data[i].comment_data = <<>> THEN <<NoRemarkLine>>
                     ELSE data[i].comment_data]]

Formats == {"a", "b", "c"}

\* format_mapping of main, with what each generator writes
FormatExt(f) == CASE f = "a" -> "csv" [] f = "b" -> "xlsx" [] f = "c" -> "txt"

Generate(f, data) ==
    IF f = "c" THEN generate_txt(data) ELSE format_dataframe(data)

NoFile == [ext |-> "none"]

-----------------------------------------------------------------------------
(* The issue source (the Jira client library object or the REST endpoint). *)

NoResponse == [kind |-> "none"]

\* the records of one page of k records starting at offset
Page(offset, k) ==
    IF k = 0 THEN <<>> ELSE SubSeq(srcRecords, offset + 1, offset + k)

\* how many records the source holds from offset on, at most limit
Available(offset, limit) == Max(0, Min(limit, Len(srcRecords) - offset))

\* the page lengths the source may answer with
PageLengths(offset, limit) ==
    IF srcMode = "exact" THEN {Available(offset, limit)}
    ELSE 0..Available(offset, limit)

\* the totals the source may report
Totals ==
    IF srcMode = "exact" THEN {Len(srcRecords)}
    ELSE Max(0, Len(srcRecords) - MaxTotalSkew)..(Len(srcRecords) + MaxTotalSkew)

\* jira.search_issues(...): a list of Issue objects, or an exception
LibAnswers(offset, limit) ==
    {[kind |-> "exception"]}
    \cup {[kind |-> "result",
           issues |-> [j \in 1..k |-> [raw |-> Page(offset, k)[j]]]] :
          k \in PageLengths(offset, limit)}

\* requests.get(...): a response with a status code and a JSON body, or an
\* exception (timeout, connection error)
ApiAnswers(offset, limit) ==
    {[kind |-> "exception"]}
    \cup {[kind |-> "http", status_code |-> 500, json |-> <<>>]}
    \cup {[kind |-> "http", status_code |-> 200,
           json |-> [issues |-> Page(offset, k), total |-> tot]] :
          k \in PageLengths(offset, limit), tot \in Totals}
    \cup (IF srcMode = "exact" THEN {}
          ELSE {[kind |-> "http", status_code |-> 200,
                 json |-> [issues |-> Page(offset, k)]] :
                k \in PageLengths(offset, limit)})

-----------------------------------------------------------------------------
(* Initial states.                                                         *)

\* list(set(selections)): the chosen formats, each once, in any order
FormatLists ==
    {l \in UNION {[1..n -> Formats] : n \in 1..Cardinality(Formats)} :
        \A i, j \in DOMAIN l : i /= j => l[i] /= l[j]}

NotCalled == [t |-> "not_called"]
NoSummary == [printed |-> FALSE]

\* the variables of main before the fetch starts
MainStart ==
    /\ start_at = 0
    /\ all_issues = <<>>
    /\ response = NoResponse
    /\ issues = <<>>
    /\ fetched = FALSE
    /\ idx = 0
    /\ processed_data = <<>>
    /\ reported = 0
    /\ fmt_idx = 0
    /\ attempts = [f \in Formats |-> 0]
    /\ artifacts = [f \in Formats |-> NoFile]
    /\ export_errors = 0
    /\ summary = NoSummary
    /\ exit_code = -1

SafeGetIdle ==
    /\ sg_data = None
    /\ sg_keys = ""
    /\ sg_result = NotCalled

PipelineKinds == {"two_comments", "number_created"}

\* main after the prompts: the choices are made, nothing is fetched yet
Init ==
    /\ pc = "main"
    /\ fetch_method \in {"a", "b"}
    /\ output_formats \in FormatLists
    /\ block_size \in 1..MaxPageSize
    /\ srcRecords \in IssueLists(PipelineKinds, MaxIssues)
    /\ srcMode \in {"exact", "arbitrary"}
    /\ MainStart
    /\ SafeGetIdle

-----------------------------------------------------------------------------
(* main: the fetch                                                         *)

\* sys.exit(1)
Exit1 ==
    /\ pc' = "exit"
    /\ exit_code' = 1

AfterFetchUnchanged ==
    UNCHANGED <<idx, processed_data, reported, fmt_idx, attempts, artifacts,
                export_errors, summary>>

ConfigUnchanged ==
    UNCHANGED <<fetch_method, output_formats, block_size, srcRecords, srcMode,
                sg_data, sg_keys, sg_result>>

\* main, lines 352-355: the choice of the fetch function
StartFetch ==
    /\ pc = "main"
    /\ pc' = IF fetch_method = "a" THEN "lib_connect" ELSE "api_request"
    /\ UNCHANGED <<start_at, all_issues, response, issues, fetched, exit_code>>
    /\ AfterFetchUnchanged /\ ConfigUnchanged

\* fetch_via_library: JIRA(...) connects or raises
LibConnect ==
    /\ pc = "lib_connect"
    /\ \E ok \in BOOLEAN :
          IF ok THEN pc' = "lib_request" /\ UNCHANGED exit_code ELSE Exit1
    /\ UNCHANGED <<start_at, all_issues, response, issues, fetched>>
    /\ AfterFetchUnchanged /\ ConfigUnchanged

\* fetch_via_library: the call jira.search_issues(startAt, maxResults)
LibRequest ==
    /\ pc = "lib_request"
    /\ \E r \in LibAnswers(start_at, block_size) : response' = r
    /\ pc' = "lib_response"
    /\ UNCHANGED <<start_at, all_issues, issues, fetched, exit_code>>
    /\ AfterFetchUnchanged /\ ConfigUnchanged

\* a variant of LibStop that also stops on a full page
LibStopOnFullPage(n, limit) == n <= limit

\* `if len(issues) < block_size: break`
LibStop(n, limit) == n < limit

\* fetch_via_library: the rest of the loop body, the return, the except clause
LibHandle ==
    /\ pc = "lib_response"
    /\ IF response.kind = "exception"
       THEN /\ Exit1
            /\ UNCHANGED <<start_at, all_issues, response, issues, fetched>>
       ELSE LET n == Len(response.issues)
                got == all_issues \o response.issues
            IN  /\ all_issues' = got
                /\ start_at' = start_at + n
                /\ UNCHANGED exit_code
                /\ IF LibStop(n, block_size)
                   THEN /\ issues' = [j \in 1..Len(got) |-> got[j].raw]
                        /\ fetched' = TRUE
                        /\ response' = NoResponse
                        /\ pc' = "process"
                   ELSE /\ pc' = "lib_request"
                        /\ response' = NoResponse
                        /\ UNCHANGED <<issues, fetched>>
    /\ AfterFetchUnchanged /\ ConfigUnchanged

\* fetch_via_api: the call requests.get(search_url, params)
ApiRequest ==
    /\ pc = "api_request"
    /\ \E r \in ApiAnswers(start_at, block_size) : response' = r
    /\ pc' = "api_response"
    /\ UNCHANGED <<start_at, all_issues, issues, fetched, exit_code>>
    /\ AfterFetchUnchanged /\ ConfigUnchanged

\* `if start_at >= data.get('total', 0): break`
ApiStop(start, total) == start >= total

\* a variant of ApiStatusFatal that lets every status through
ApiStatusIgnored(response_) == FALSE

\* `if response.status_code != 200: sys.exit(1)`
ApiStatusFatal(response_) == response_.status_code /= 200

\* fetch_via_api: the rest of the loop body, the return, the except clause
ApiHandle ==
    /\ pc = "api_response"
    /\ IF response.kind = "exception" \/ ApiStatusFatal(response)
       THEN /\ Exit1
            /\ UNCHANGED <<start_at, all_issues, response, issues, fetched>>
       ELSE LET page == DictGet(response.json, "issues", <<>>)
                got == all_issues \o page
                start == start_at + Len(page)
            IN  /\ UNCHANGED exit_code
                /\ response' = NoResponse
                /\ IF ApiStop(start, DictGet(response.json, "total", 0))
                   THEN /\ issues' = got
                        /\ fetched' = TRUE
                        /\ all_issues' = <<>>
                        /\ start_at' = 0
                        /\ pc' = "process"
                   ELSE /\ all_issues' = got
                        /\ start_at' = start
                        /\ pc' = "api_request"
                        /\ UNCHANGED <<issues, fetched>>
    /\ AfterFetchUnchanged /\ ConfigUnchanged

-----------------------------------------------------------------------------
(* main: process_issues                                                    *)

FetchUnchanged == UNCHANGED <<start_at, all_issues, response, issues, fetched>>

\* a variant of ProcessIssue that leaves the loop at the first failure
ProcessIssueStopOnError ==
    /\ pc = "process"
    /\ idx < Len(issues)
    /\ LET r == NormalizeIssue(issues[idx + 1])
       IN  IF r.ok
           THEN /\ processed_data' = Append(processed_data, r.rec)
                /\ idx' = idx + 1
                /\ UNCHANGED reported
           ELSE /\ reported' = reported + 1
                /\ idx' = Len(issues)
                /\ UNCHANGED processed_data
    /\ UNCHANGED <<pc, exit_code, fmt_idx, attempts, artifacts, export_errors, summary>>
    /\ FetchUnchanged /\ ConfigUnchanged

\* one iteration of the for loop of process_issues
ProcessIssue ==
    /\ pc = "process"
    /\ idx < Len(issues)
    /\ LET r == NormalizeIssue(issues[idx + 1])
       IN  IF r.ok
           THEN /\ processed_data' = Append(processed_data, r.rec)
                /\ UNCHANGED reported
           ELSE /\ reported' = reported + 1
                /\ UNCHANGED processed_data
    /\ idx' = idx + 1
    /\ UNCHANGED <<pc, exit_code, fmt_idx, attempts, artifacts, export_errors, summary>>
    /\ FetchUnchanged /\ ConfigUnchanged

\* `return processed`
ProcessReturn ==
    /\ pc = "process"
    /\ idx = Len(issues)
    /\ pc' = "export"
    /\ UNCHANGED <<idx, processed_data, reported, exit_code, fmt_idx, attempts,
                   artifacts, export_errors, summary>>
    /\ FetchUnchanged /\ ConfigUnchanged

-----------------------------------------------------------------------------
(* main: the export loop and the summary                                   *)

\* a variant of ExportFormat that leaves the loop at the first failure
ExportFormatStopOnError ==
    /\ pc = "export"
    /\ fmt_idx < Len(output_formats)
    /\ LET f == output_formats[fmt_idx + 1]
       IN  /\ attempts' = [attempts EXCEPT ![f] = @ + 1]
           /\ \E ok \in BOOLEAN :
                 IF ok
                 THEN /\ artifacts' = [artifacts EXCEPT ![f] =
                            [ext |-> FormatExt(f), content |-> Generate(f, processed_data)]]
                      /\ fmt_idx' = fmt_idx + 1
                      /\ UNCHANGED export_errors
                 ELSE /\ export_errors' = export_errors + 1
                      /\ fmt_idx' = Len(output_formats)
                      /\ UNCHANGED artifacts
    /\ UNCHANGED <<pc, exit_code, idx, processed_data, reported, summary>>
    /\ FetchUnchanged /\ ConfigUnchanged

\* one iteration of `for fmt in output_formats`: the generator writes the
\* file or raises, and the except clause prints the failure
ExportFormat ==
    /\ pc = "export"
    /\ fmt_idx < Len(output_formats)
    /\ LET f == output_formats[fmt_idx + 1]
       IN  /\ attempts' = [attempts EXCEPT ![f] = @ + 1]
           /\ \E ok \in BOOLEAN :
                 IF ok
                 THEN /\ artifacts' = [artifacts EXCEPT ![f] =
                            [ext |-> FormatExt(f), content |-> Generate(f, processed_data)]]
                      /\ UNCHANGED export_errors
                 ELSE /\ export_errors' = export_errors + 1
                      /\ UNCHANGED artifacts
    /\ fmt_idx' = fmt_idx + 1
    /\ UNCHANGED <<pc, exit_code, idx, processed_data, reported, summary>>
    /\ FetchUnchanged /\ ConfigUnchanged

\* the number printed after "generated data rows" (line 381)
SummaryRows == Len(processed_data)

\* lines 377-381, then main returns
Summarize ==
    /\ pc = "export"
    /\ fmt_idx = Len(output_formats)
    /\ summary' = [printed |-> TRUE, issues |-> Len(issues), rows |-> SummaryRows]
    /\ pc' = "done"
    /\ exit_code' = 0
    /\ UNCHANGED <<idx, processed_data, reported, fmt_idx, attempts, artifacts,
                   export_errors>>
    /\ FetchUnchanged /\ ConfigUnchanged

-----------------------------------------------------------------------------
(* The pipeline.                                                           *)

Next ==
    \/ StartFetch
    \/ LibConnect
    \/ LibRequest
    \/ LibHandle
    \/ ApiRequest
    \/ ApiHandle
    \/ ProcessIssue
    \/ ProcessReturn
    \/ ExportFormat
    \/ Summarize

Spec == Init /\ [][Next]_vars

\* main is one sequential process: a step of the fetch that can be taken is
\* eventually taken.
FetchFairness ==
    /\ WF_vars(StartFetch)
    /\ WF_vars(LibConnect)
    /\ WF_vars(LibRequest)
    /\ WF_vars(LibHandle)
    /\ WF_vars(ApiRequest)
    /\ WF_vars(ApiHandle)

FairSpec == Init /\ [][Next]_vars /\ FetchFairness

-----------------------------------------------------------------------------
(* process_issues and format_dataframe on their own: main from the point   *)
(* where the fetch has returned a list of raw issues of any shape.         *)

\* one requested format is enough to have the rows or the text written
ProcFormatLists == {l \in FormatLists : Len(l) = 1}

ProcInit ==
    /\ pc = "process"
    /\ fetch_method = "b"
    /\ output_formats \in ProcFormatLists
    /\ block_size = MaxPageSize
    /\ issues \in IssueLists(RichKinds, MaxProcIssues)
    /\ srcRecords = <<>>
    /\ srcMode = "exact"
    /\ start_at = 0
    /\ all_issues = <<>>
    /\ response = NoResponse
    /\ fetched = TRUE
    /\ idx = 0
    /\ processed_data = <<>>
    /\ reported = 0
    /\ fmt_idx = 0
    /\ attempts = [f \in Formats |-> 0]
    /\ artifacts = [f \in Formats |-> NoFile]
    /\ export_errors = 0
    /\ summary = NoSummary
    /\ exit_code = -1
    /\ SafeGetIdle

ProcNext ==
    \/ ProcessIssue
    \/ ProcessReturn
    \/ ExportFormat
    \/ Summarize

ProcSpec == ProcInit /\ [][ProcNext]_vars

-----------------------------------------------------------------------------
(* safe_get on its own: one call on a value and a dotted path.             *)

MaxDepth == 2         \* nesting depth of the mappings given to safe_get

SgKeys == {"a", "b"}

SgLeaves == {None, EmptyStr, Str("x"), Sentinel, Num(0), EmptyList}

\* the values nested at most d mappings deep
RECURSIVE SgValues(_)
SgValues(d) ==
    IF d = 0 THEN SgLeaves
    ELSE SgLeaves \cup {Dict(<<>>)}
         \cup {Dict(k :> v) : k \in SgKeys, v \in SgValues(d - 1)}

SgPaths == {"a", "b", "a.a", "a.b", "b.a", "a.a.a", "a.b.a", "", "a.", "c"}

SafeGetInit ==
    /\ pc = "safe_get"
    /\ sg_data \in SgValues(MaxDepth)
    /\ sg_keys \in SgPaths
    /\ sg_result = NotCalled
    /\ fetch_method = "b"
    /\ output_formats = <<"a">>
    /\ block_size = MaxPageSize
    /\ srcRecords = <<>>
    /\ srcMode = "exact"
    /\ MainStart

\* the call safe_get(data, keys) with the default left to its default value
SafeGetCall ==
    /\ pc = "safe_get"
    /\ sg_result' = safe_get(sg_data, sg_keys, Sentinel)
    /\ pc' = "safe_get_done"
    /\ UNCHANGED <<fetch_method, output_formats, block_size, srcRecords, srcMode,
                   start_at, all_issues, response, issues, fetched, idx,
                   processed_data, reported, fmt_idx, attempts, artifacts,
                   export_errors, summary, exit_code, sg_data, sg_keys>>

SafeGetNext == SafeGetCall

SafeGetSpec == SafeGetInit /\ [][SafeGetNext]_vars

-----------------------------------------------------------------------------
(* Properties.                                                             *)

Range(l) == {l[i] : i \in DOMAIN l}

FetchPcs == {"main", "lib_connect", "lib_request", "lib_response",
             "api_request", "api_response"}

\* C1 Pagination completeness: when the source answers every page request
\* with the full run of consecutive records from the offset and reports its
\* true total, the fetch (by either path, for every page size and every
\* number of records) returns exactly the records of the source, each once,
\* in source order.
PaginationComplete ==
    (fetched /\ srcMode = "exact") => issues = srcRecords

\* the library path has fetched two or more full pages and then an empty one
PaginationCompleteWitness ==
    /\ fetched /\ srcMode = "exact" /\ fetch_method = "a"
    /\ Len(srcRecords) > 0
    /\ Len(srcRecords) = 2 * block_size
    /\ issues = srcRecords

\* C2 Fetch termination: whatever pages the source answers with, the
\* pagination loop of the chosen fetch path is eventually left.
FetchTerminates == <>(pc \notin FetchPcs)

FailedResponse ==
    \/ response.kind = "exception"
    \/ response.kind = "http" /\ response.status_code /= 200

NothingDownstream ==
    /\ ~fetched
    /\ issues = <<>>
    /\ idx = 0
    /\ processed_data = <<>>
    /\ summary = NoSummary
    /\ \A f \in Formats : attempts[f] = 0 /\ artifacts[f] = NoFile

\* C3 Transport failure is fatal: the step that handles a failed page request
\* (a non-200 status or an exception), on the first page or a later one, ends
\* the run with exit status 1; nothing was returned to main, process_issues
\* has not started and no artifact is written; and nothing happens after the
\* exit.
TransportFailureFatal ==
    [][/\ FailedResponse => (pc' = "exit" /\ exit_code' = 1 /\ NothingDownstream')
       /\ pc = "exit" => FALSE]_vars

\* a page request failed after a page had been fetched successfully
TransportFailureWitness ==
    /\ pc = "exit" /\ exit_code = 1
    /\ FailedResponse
    /\ Len(all_issues) >= 1

ScalarFields == {"key", "type", "Summary", "created", "created_year",
                 "created_month", "status", "resolution", "environment",
                 "description"}

\* the number of rows the first n issues stand for: sum of max(1, comments)
RECURSIVE RowsBefore(_, _)
RowsBefore(data, n) ==
    IF n = 0 THEN 0
    ELSE RowsBefore(data, n - 1) + Max(1, Len(data[n].comment_data))

RowsFollowLaw(data, rows) ==
    /\ Len(rows) = RowsBefore(data, Len(data))
    /\ Len(rows) >= Len(data)
    /\ \A i \in 1..Len(data) :
          LET off == RowsBefore(data, i - 1)
              m == Len(data[i].comment_data)
          IN  /\ \A j \in 1..Max(1, m) :
                    \A fld \in ScalarFields : rows[off + j][fld] = data[i][fld]
              /\ \A j \in 1..m :
                    /\ rows[off + j].comment = data[i].comment_data[j].body
                    /\ rows[off + j].comment_author = data[i].comment_data[j].author
                    /\ rows[off + j].comment_created_time
                           = data[i].comment_data[j].created

\* C4 Row-count law: the rows written by generate_csv / generate_excel are
\* one row for each issue without comments and M rows for each issue with M
\* comments, in issue order and within an issue in comment order, each row
\* carrying the scalar fields of its issue.
RowCountLaw ==
    \A f \in {"a", "b"} :
        artifacts[f] /= NoFile => RowsFollowLaw(processed_data, artifacts[f].content)

\* an issue with 2 comments and one without were written as 2 + 1 rows
RowCountLawWitness ==
    /\ artifacts["a"] /= NoFile
    /\ Len(processed_data) = 2
    /\ Len(processed_data[1].comment_data) = 2
    /\ Len(processed_data[2].comment_data) = 0
    /\ Len(artifacts["a"].content) = 3

\* the raw value of fields.created, Absent when there is none
RawCreated(issue) ==
    IF /\ issue.t = "dict"
       /\ "fields" \in DOMAIN issue.d
       /\ issue.d.fields.t = "dict"
       /\ "created" \in DOMAIN issue.d.fields.d
    THEN issue.d.fields.d.created
    ELSE Absent

\* normalisation raises on a raw issue that is not a mapping and on one
\* whose created is a number or a mapping (neither can be sliced)
RaisesOn(issue) ==
    issue.t /= "dict" \/ RawCreated(issue).t \in {"num", "dict"}

\* the keys of the raw issues on which normalisation does not raise, in order
RECURSIVE SurvivorKeys(_)
SurvivorKeys(raw) ==
    IF raw = <<>> THEN <<>>
    ELSE (IF RaisesOn(Head(raw)) THEN <<>> ELSE <<Head(raw).d.key>>)
         \o SurvivorKeys(Tail(raw))

\* C5 Isolation law: after process_issues has consumed the first idx raw
\* issues its output holds one canonical issue for each of them that did not
\* raise, in their order; each failure was reported; and the function returns
\* only after it has consumed every raw issue.
IsolationLaw ==
    /\ [i \in 1..Len(processed_data) |-> processed_data[i].key]
           = SurvivorKeys(SubSeq(issues, 1, idx))
    /\ reported = idx - Len(processed_data)
    /\ pc \in {"export", "done"} => idx = Len(issues)

\* issue 1 of 2 raised; issue 2 was processed after it and is the output
IsolationLawWitness ==
    /\ pc = "export"
    /\ Len(issues) = 2
    /\ RaisesOn(issues[1])
    /\ ~RaisesOn(issues[2])
    /\ Len(processed_data) = 1
    /\ processed_data[1].key = Str(KeyOf(2))
    /\ reported = 1

\* the keys of a dotted path, written out
PathKeys(p) ==
    CASE p = "a" -> <<"a">> [] p = "b" -> <<"b">> [] p = "c" -> <<"c">>
      [] p = "a.a" -> <<"a", "a">> [] p = "a.b" -> <<"a", "b">>
      [] p = "b.a" -> <<"b", "a">> [] p = "a.a.a" -> <<"a", "a", "a">>
      [] p = "a.b.a" -> <<"a", "b", "a">> [] p = "" -> <<"">>
      [] p = "a." -> <<"a", "">>

\* the value at the end of the path, or Absent when a key is missing or an
\* intermediate value is not a mapping
RECURSIVE Descend(_, _)
Descend(v, ks) ==
    IF ks = <<>> THEN v
    ELSE IF v.t = "dict" /\ Head(ks) \in DOMAIN v.d
         THEN Descend(v.d[Head(ks)], Tail(ks))
         ELSE Absent

\* C6 Sentinel totality: safe_get returns the value at the end of the path or
\* the sentinel; the sentinel when a key is absent, an intermediate value is
\* not a mapping, or the final value is null or the empty string; never null
\* and never the empty string.
SentinelTotality ==
    pc = "safe_get_done" =>
        LET deep == Descend(sg_data, PathKeys(sg_keys))
        IN  /\ sg_result \in {deep, Sentinel}
            /\ deep \in {Absent, None, EmptyStr} => sg_result = Sentinel
            /\ sg_result \notin {None, EmptyStr, Absent, NotCalled}

\* a two-key path ending on an empty string gave the sentinel
SentinelTotalityWitness ==
    /\ pc = "safe_get_done"
    /\ sg_keys = "a.b"
    /\ Descend(sg_data, <<"a", "b">>) = EmptyStr
    /\ sg_result = Sentinel

Filled(v) == v /= None /\ v /= EmptyStr

\* C7 No null/empty in normalized output: no field of a canonical issue, of a
\* canonical comment or of a written row is null or the empty string, and the
\* row of an issue without comments has the "no comments" marker in its three
\* comment fields.
NoNullOrEmptyOutput ==
    /\ \A i \in DOMAIN processed_data :
          /\ \A fld \in ScalarFields : Filled(processed_data[i][fld])
          /\ \A j \in DOMAIN processed_data[i].comment_data :
                LET c == processed_data[i].comment_data[j]
                IN  Filled(c.body) /\ Filled(c.author) /\ Filled(c.created)
    /\ \A f \in {"a", "b"} :
          artifacts[f] /= NoFile =>
              \A k \in DOMAIN artifacts[f].content :
                  LET row == artifacts[f].content[k]
                  IN  /\ \A fld \in ScalarFields : Filled(row[fld])
                      /\ Filled(row.comment)
                      /\ Filled(row.comment_author)
                      /\ Filled(row.comment_created_time)
                      /\ row.comment = NoCommentMarker =>
                            /\ row.comment_author = NoCommentMarker
                            /\ row.comment_created_time = NoCommentMarker

\* C8 Final summary counts: the summary of a completed run reports the number
\* of issues fetched and the number of export rows of the row expansion.
SummaryReportsRows ==
    pc = "done" =>
        /\ summary.printed
        /\ summary.issues = Len(issues)
        /\ summary.rows = Len(format_dataframe(processed_data))

\* what the time normalizer makes of the raw values of the samples
ExpectedCreated(raw) ==
    IF raw = ParseableTime THEN Str("2024-07-15 10:00:00") ELSE raw

FirstFour(s) == IF Len(s) <= 4 THEN s ELSE SubSeq(s, 1, 4)
SixthAndSeventh(s) == IF Len(s) < 6 THEN "" ELSE SubSeq(s, 6, Min(7, Len(s)))

CreatedFollows(issue, rec, blank) ==
    LET raw == RawCreated(issue)
    IN  IF raw \in blank
        THEN /\ rec.created = Sentinel
             /\ rec.created_year = Sentinel
             /\ rec.created_month = Sentinel
        ELSE /\ rec.created = ExpectedCreated(raw)
             /\ rec.created_year = Str(FirstFour(rec.created.s))
             /\ rec.created_month = Str(SixthAndSeventh(rec.created.s))

\* the step of process_issues that appends a canonical issue
Appends == pc = "process" /\ Len(processed_data') = Len(processed_data) + 1

\* C9 as stated: the three fields are the sentinel exactly when the raw
\* created is absent, null or empty; otherwise year and month are the first
\* four characters and the characters at positions 5-6 of the normalized
\* created.
CreatedConsistencyAsStated ==
    [][Appends => CreatedFollows(issues[idx + 1],
                                 processed_data'[Len(processed_data')],
                                 {Absent, None, EmptyStr})]_vars

\* C9 Created/year/month consistency, amended: the three fields are the
\* sentinel when the raw created is absent, null, empty or the sentinel text
\* itself; otherwise created is the normalized raw value (an unparseable
\* string unchanged), created_year its first four characters and
\* created_month its characters at zero-indexed positions 5-6.
CreatedConsistency ==
    [][Appends => CreatedFollows(issues[idx + 1],
                                 processed_data'[Len(processed_data')],
                                 {Absent, None, EmptyStr, Sentinel})]_vars

\* a parsed created gave year "2024" and month "07"; an absent one the sentinel
CreatedConsistencyWitness ==
    /\ Len(processed_data) = 2
    /\ processed_data[1].created = Str("2024-07-15 10:00:00")
    /\ processed_data[1].created_year = Str("2024")
    /\ processed_data[1].created_month = Str("07")
    /\ RawCreated(issues[2]) = Absent
    /\ processed_data[2].created_year = Sentinel

\* C10 Export failure isolation: every requested format is attempted exactly
\* once and no other format is; a failed write is counted and the loop goes
\* on to the remaining formats and to the summary.
ExportIsolation ==
    /\ \A f \in Formats :
          /\ attempts[f] <= 1
          /\ attempts[f] = 1 => f \in Range(output_formats)
    /\ Cardinality({f \in Formats : attempts[f] = 1}) = fmt_idx
    /\ export_errors + Cardinality({f \in Formats : artifacts[f] /= NoFile}) = fmt_idx
    /\ export_errors > 0 => pc \in {"export", "done"}
    /\ pc = "done" =>
          /\ \A f \in Range(output_formats) : attempts[f] = 1
          /\ summary.printed

\* three formats were requested, the first write failed, the last succeeded
ExportIsolationWitness ==
    /\ pc = "done"
    /\ Len(output_formats) = 3
    /\ \A f \in Formats : attempts[f] = 1
    /\ artifacts[output_formats[1]] = NoFile
    /\ artifacts[output_formats[3]] /= NoFile
    /\ export_errors >= 1
    /\ summary.printed

====
